---- MODULE Spec2Model ----
(***************************************************************************)
(* Layout-to-structure inference: the outline extractor of                *)
(* Challenge_1a/process_pdfs.py and the section segmenter and ranker of   *)
(* Challenge_1b/main.py.                                                  *)
(*                                                                        *)
(* Units.  Vertical positions delivered by the parsing backend are kept   *)
(* in hundredths of a unit (10004 is 100.04); a rounded line position y0  *)
(* is kept in tenths (1000 is 100.0).  Font sizes are whole points.  A    *)
(* cluster center is the exact mean of its members, kept as a fraction    *)
(* [n |-> sum, d |-> count].  Text is a sequence of one-character         *)
(* strings.                                                               *)
(***************************************************************************)
EXTENDS Integers, Sequences, FiniteSets, TLC

VARIABLES
    files,      \* 1a: sorted(os.listdir('input')), one record per entry
    fidx,       \* 1a: position of process_pdfs's loop in files
    pc,         \* 1a: "loop" | "done" | "aborted" (uncaught exception)
    written,    \* 1a: file index -> <<the JSON written for it>>, or <<>>
    doc,        \* 1a: <<the document extract_outline last opened>>, or <<>>
    spans,      \* 1a: its spans
    centers,    \* 1a: its centers
    headings,   \* 1a: its headings as sorted, before the title entries are removed
    kept,       \* 1a: its headings after the title entries are removed
    title,      \* 1a: extract_outline's title
    outline,    \* 1a: extract_outline's outline
    pdf,        \* 1b: the document extract_sections is given
    items,      \* 1b: extract_sections's sorted line items
    pos,        \* 1b: position of the segmenter's walk in items
    current,    \* 1b: the in-progress section: <<>> for None, or <<section>>
    sections,   \* 1b: the closed sections, before the length filter
    result,     \* 1b: what extract_sections returned
    spc,        \* 1b: "open" | "walk" | "returned"
    docs,       \* 1b: process_collection's documents, each with its sections
    didx,       \* 1b: position of process_collection's loop in docs
    all_secs,   \* 1b: the pooled sections
    max_sections, \* 1b: the analyzer's max_sections
    ranked,     \* 1b: what rank_sections returned
    out,        \* 1b: <<the output written>>, or <<>>
    rpc         \* 1b: "pool" | "ranked" | "written" | "failed" (exception, logged by main)

vars1a == <<files, fidx, pc, written, doc, spans, centers, headings, kept, title, outline>>
varsSeg == <<pdf, items, pos, current, sections, result, spc>>
varsRank == <<docs, didx, all_secs, max_sections, ranked, out, rpc>>
vars == <<vars1a, varsSeg, varsRank>>

(***************************************************************************)
(* Text                                                                   *)
(***************************************************************************)
UpperChars == {"A", "B", "C", "R", "S", "T", "X"}
LowerChars == {"a", "b", "x", "y"}
DigitChars == {"0", "1", "2", "3", "4", "5", "6", "7", "8", "9"}
SpaceChars == {" ", "\t"}
\* the characters clean_text keeps: \w, \s and . , ! ? ; : - ( )
KeptChars == UpperChars \cup LowerChars \cup DigitChars \cup SpaceChars
             \cup {"_", ".", ",", "!", "?", ";", ":", "-", "(", ")"}

RECURSIVE lstrip(_)
lstrip(t) ==
    IF t # <<>> /\ Head(t) \in SpaceChars THEN lstrip(Tail(t)) ELSE t

RECURSIVE rstrip(_)
rstrip(t) ==
    IF t # <<>> /\ t[Len(t)] \in SpaceChars
    THEN rstrip(SubSeq(t, 1, Len(t) - 1)) ELSE t

\* str.strip()
strip(t) == rstrip(lstrip(t))

\* sep.join(parts)
RECURSIVE join(_, _)
join(sep, parts) ==
    IF parts = <<>> THEN <<>>
    ELSE IF Len(parts) = 1 THEN parts[1]
    ELSE parts[1] \o sep \o join(sep, Tail(parts))

AllDigits(t) == \A i \in 1..Len(t) : t[i] \in DigitChars

\* re.fullmatch(r'\d+', text)
fullmatch_digits(t) == Len(t) >= 1 /\ AllDigits(t)

\* re.fullmatch(r'\d+\.?', text)
fullmatch_digits_dot(t) ==
    \/ fullmatch_digits(t)
    \/ Len(t) >= 2 /\ t[Len(t)] = "." /\ AllDigits(SubSeq(t, 1, Len(t) - 1))

\* re.match(r'^\d+\.?\d*', text): one digit at the start is enough
is_numbered(text) == text # <<>> /\ text[1] \in DigitChars

\* 'Italic' in f or 'Bold' in f, on the font names the documents use
StyledFonts == {"Helvetica-Bold", "Times-Italic"}
is_styled(font) == font \in StyledFonts

(***************************************************************************)
(* Sorting: Python's sorted()/list.sort() is stable.  key is the sequence *)
(* of the elements' keys, each a tuple of integers compared               *)
(* lexicographically.                                                     *)
(***************************************************************************)
RECURSIVE LexLess(_, _)
LexLess(a, b) ==
    IF a = <<>> \/ b = <<>> THEN a = <<>> /\ b # <<>>
    ELSE IF Head(a) # Head(b) THEN Head(a) < Head(b)
    ELSE LexLess(Tail(a), Tail(b))

\* the index sequence perm with index i put after every entry not greater
RECURSIVE InsertIdx(_, _, _)
InsertIdx(perm, i, key) ==
    IF perm = <<>> THEN <<i>>
    ELSE IF LexLess(key[i], key[Head(perm)]) THEN <<i>> \o perm
    ELSE <<Head(perm)>> \o InsertIdx(Tail(perm), i, key)

RECURSIVE SortIdx(_, _)
SortIdx(n, key) ==
    IF n = 0 THEN <<>> ELSE InsertIdx(SortIdx(n - 1, key), n, key)

sorted(seq, key) ==
    LET perm == SortIdx(Len(seq), key)
    IN  [i \in 1..Len(seq) |-> seq[perm[i]]]

RECURSIVE Flatten(_)
Flatten(ss) == IF ss = <<>> THEN <<>> ELSE Head(ss) \o Flatten(Tail(ss))

RECURSIVE SumSeq(_)
SumSeq(s) == IF s = <<>> THEN 0 ELSE Head(s) + SumSeq(Tail(s))

Abs(v) == IF v < 0 THEN -v ELSE v

Min2(a, b) == IF a < b THEN a ELSE b

(***************************************************************************)
(* The parsing backend's records (fitz): a document is a sequence of      *)
(* pages, a page has a height and blocks, a text block (type 0) has       *)
(* lines, a line has a bounding box and spans.                            *)
(***************************************************************************)
Sp(text, size, font, x) == [text |-> text, size |-> size, font |-> font, x |-> x]
Ln(y, sps) == [y |-> y, spans |-> sps]
TextBlock(lns) == [type |-> 0, lines |-> lns]
ImageBlock == [type |-> 1, lines |-> <<>>]

\* round(line["bbox"][1], 1): hundredths to the nearest tenth
Round1(y) == (y + 5) \div 10

\* extract_spans
extract_spans(d) ==
    LET OfLine(pno, line) ==
            LET raw == line.spans
                one(i) == IF strip(raw[i].text) = <<>> THEN <<>>
                          ELSE << [pno  |-> pno,
                                   y0   |-> Round1(line.y),
                                   text |-> strip(raw[i].text),
                                   size |-> raw[i].size,
                                   font |-> raw[i].font,
                                   x    |-> raw[i].x] >>
            IN  Flatten([i \in 1..Len(raw) |-> one(i)])
        OfBlock(pno, b) ==
            IF b.type # 0 THEN <<>>
            ELSE Flatten([i \in 1..Len(b.lines) |-> OfLine(pno, b.lines[i])])
        OfPage(pno) ==
            LET bs == d[pno + 1].blocks
            IN  Flatten([i \in 1..Len(bs) |-> OfBlock(pno, bs[i])])
    IN  Flatten([p \in 1..Len(d) |-> OfPage(p - 1)])

(***************************************************************************)
(* Challenge_1a/process_pdfs.py                                           *)
(***************************************************************************)
MaxClusters == 4
Margin == 30
MaxGroup == 5
MaxRepeatPages == 2
MinHeadingCluster == 2
TitleParts == 2

RECURSIVE SetToSeq(_)
SetToSeq(S) ==
    IF S = {} THEN <<>>
    ELSE LET m == CHOOSE v \in S : \A w \in S : v <= w
         IN  <<m>> \o SetToSeq(S \ {m})

\* the ways to cut the sequence u into n non-empty runs of neighbours
RECURSIVE Runs(_, _)
Runs(u, n) ==
    IF n = 1 THEN {<<u>>}
    ELSE UNION { {<<SubSeq(u, 1, k)>> \o rest : rest \in Runs(SubSeq(u, k + 1, Len(u)), n - 1)}
                 : k \in 1..(Len(u) - n + 1) }

\* KMeans(n_clusters = n).fit(sizes).cluster_centers_, sorted.  The library
\* converges to a partition of the distinct sizes into n runs of neighbours
\* and returns each run's mean; which partition it finds is its own affair,
\* so every such partition is a possible outcome.  With n equal to the
\* number of distinct sizes the only outcome is the distinct sizes.
KMeans(sizes, n) ==
    LET S == {sizes[i] : i \in 1..Len(sizes)}
        cnt == [v \in S |-> Cardinality({i \in 1..Len(sizes) : sizes[i] = v})]
        Mean(run) == [n |-> SumSeq([j \in 1..Len(run) |-> run[j] * cnt[run[j]]]),
                      d |-> SumSeq([j \in 1..Len(run) |-> cnt[run[j]]])]
    IN  { [g \in 1..n |-> Mean(p[g])] : p \in Runs(SetToSeq(S), n) }

\* cluster_font_sizes(sizes, n=4): the set of center lists it may return
cluster_font_sizes(sizes, n) ==
    LET unique_sizes == {sizes[i] : i \in 1..Len(sizes)}
        k == IF Cardinality(unique_sizes) < n THEN Cardinality(unique_sizes) ELSE n
    IN  IF k = 0 THEN {<<>>} ELSE KMeans(sizes, k)

\* abs(size - c) for a center c = n/d, as the fraction [n, d]
Diff(size, c) == [n |-> Abs(size * c.d - c.n), d |-> c.d]
FracLess(a, b) == a.n * b.d < b.n * a.d

\* map_cluster: np.argmin takes the first of the nearest centers
map_cluster(size, cs) ==
    CHOOSE i \in 0..(Len(cs) - 1) :
        /\ \A j \in 0..(Len(cs) - 1) :
              ~FracLess(Diff(size, cs[j + 1]), Diff(size, cs[i + 1]))
        /\ \A j \in 0..(i - 1) :
              FracLess(Diff(size, cs[i + 1]), Diff(size, cs[j + 1]))

DigitSeq == <<"0", "1", "2", "3", "4", "5", "6", "7", "8", "9">>

\* str(n)
RECURSIVE FormatInt(_)
FormatInt(n) ==
    IF n < 0 THEN <<"-">> \o FormatInt(-n)
    ELSE IF n < 10 THEN <<DigitSeq[n + 1]>>
    ELSE FormatInt(n \div 10) \o <<DigitSeq[(n % 10) + 1]>>

\* f"H{n}"
FormatLevel(n) == <<"H">> \o FormatInt(n)

\* int(level[1]): the one character after the H
LevelDigit(level) == (CHOOSE k \in 1..10 : DigitSeq[k] = level[2]) - 1

H1 == FormatLevel(1)

\* lines: the (pno, y0) keys in the order the dict first sees them
RECURSIVE LineKeys(_, _)
LineKeys(sp, seen) ==
    IF sp = <<>> THEN <<>>
    ELSE LET k == <<Head(sp).pno, Head(sp).y0>>
         IN  IF k \in seen THEN LineKeys(Tail(sp), seen)
             ELSE <<k>> \o LineKeys(Tail(sp), seen \cup {k})

\* lines[key], then group.sort(key=lambda s: s['bbox'][0])
Group(sp, k) ==
    LET g == SelectSeq(sp, LAMBDA s : s.pno = k[1] /\ s.y0 = k[2])
    IN  sorted(g, [i \in 1..Len(g) |-> <<g[i].x>>])

\* ' '.join(s['text'] for s in group)
LineText(group) == join(<<" ">>, [i \in 1..Len(group) |-> group[i].text])

\* text_pages.get(text, []): the pages holding a span with exactly this text
text_pages(sp, text) == {sp[i].pno : i \in {j \in 1..Len(sp) : sp[j].text = text}}

NumberedLevelDeeper(level) == FormatLevel(LevelDigit(level) + 1)

\* the level of a numbered line that is not at H1
NumberedLevel(level) == FormatLevel(LevelDigit(level) - 1)

\* the filters before any font analysis: repeated text, numeric-only, table row
Rejected(sp, group, text) ==
    \/ Cardinality(text_pages(sp, text)) > MaxRepeatPages
    \/ fullmatch_digits_dot(text)
    \/ Len(group) > MaxGroup
    \/ fullmatch_digits(text)

LineClusterStyledKept(group, cs) ==
    LET cluster_idxs == [i \in 1..Len(group) |-> map_cluster(group[i].size, cs)]
        max_c == CHOOSE c \in {cluster_idxs[i] : i \in 1..Len(group)} :
                     \A i \in 1..Len(group) : cluster_idxs[i] <= c
    IN  IF \E i \in 1..Len(group) : cluster_idxs[i] = 0
        THEN IF \A i \in 1..Len(group) : is_styled(group[i].font) THEN max_c ELSE -1
        ELSE max_c

\* the cluster a line is judged by, or -1 when its small spans rule it out
LineCluster(group, cs) ==
    LET cluster_idxs == [i \in 1..Len(group) |-> map_cluster(group[i].size, cs)]
        max_c == CHOOSE c \in {cluster_idxs[i] : i \in 1..Len(group)} :
                     \A i \in 1..Len(group) : cluster_idxs[i] <= c
    IN  IF \E i \in 1..Len(group) : cluster_idxs[i] = 0
        THEN IF \A i \in 1..Len(group) : is_styled(group[i].font) THEN 1 ELSE -1
        ELSE max_c

\* the level a line of cluster max_c and this text is given
AssignLevel(text, max_c, cs) ==
    LET level == FormatLevel(Len(cs) - max_c)
    IN  IF is_numbered(text) /\ level # H1 THEN NumberedLevel(level) ELSE level

IsBodyClusterLow(max_c) == max_c < MinHeadingCluster - 1

\* if max_c < 2: continue
IsBodyCluster(max_c) == max_c < MinHeadingCluster

\* one pass of the loop over lines.items(): the heading appended, if any
HeadingOf(d, sp, cs, k) ==
    LET pno == k[1]
        y0 == k[2]
        page_h == d[pno + 1].height
        group == Group(sp, k)
        text == LineText(group)
        max_c == LineCluster(group, cs)
    IN  IF y0 < Margin * 10 \/ y0 > page_h - Margin * 10 THEN <<>>
        ELSE IF Rejected(sp, group, text) THEN <<>>
        ELSE IF IsBodyCluster(max_c) THEN <<>>
        ELSE << [page  |-> pno + 1,
                 y     |-> y0,
                 level |-> AssignLevel(text, max_c, cs),
                 text  |-> text \o <<" ">>] >>

UnsortedHeadings(d, sp, cs) ==
    LET keys == LineKeys(sp, {})
    IN  Flatten([i \in 1..Len(keys) |-> HeadingOf(d, sp, cs, keys[i])])

\* the headings list after headings.sort(key=lambda h: (h['page'], h['y']))
SortedHeadings(d, sp, cs) ==
    LET keys == LineKeys(sp, {})
        hs == Flatten([i \in 1..Len(keys) |-> HeadingOf(d, sp, cs, keys[i])])
    IN  sorted(hs, [i \in 1..Len(hs) |-> <<hs[i].page, hs[i].y>>])

\* p1_h1: the first two level-H1 headings of page 1, by position
TitleHeadings(hs) ==
    LET c == SelectSeq(hs, LAMBDA h : h.page = 1 /\ h.level = H1)
        s == sorted(c, [i \in 1..Len(c) |-> <<c[i].y>>])
    IN  SubSeq(s, 1, Min2(TitleParts, Len(s)))

\* headings with the title entries removed
WithoutTitle(hs, p1_h1) ==
    LET title_set == {p1_h1[i].text : i \in 1..Len(p1_h1)}
    IN  SelectSeq(hs, LAMBDA h : ~(h.page = 1 /\ h.level = H1 /\ h.text \in title_set))

\* extract_outline on a readable document, given the centers found
extract_outline(d, sp, cs) ==
    IF sp = <<>> THEN [headings |-> <<>>, kept |-> <<>>, title |-> <<>>, outline |-> <<>>]
    ELSE
    LET hs == SortedHeadings(d, sp, cs)
        p1_h1 == TitleHeadings(hs)
        rest == WithoutTitle(hs, p1_h1)
    IN  [headings |-> hs,
         kept     |-> rest,
         title    |-> strip(Flatten([i \in 1..Len(p1_h1) |-> p1_h1[i].text])),
         outline  |-> [i \in 1..Len(rest) |->
                          [level |-> rest[i].level, text |-> rest[i].text,
                           page |-> rest[i].page]]]

(***************************************************************************)
(* The documents process_pdfs is run on.  Every page has a fixed list of  *)
(* slots, in the order the backend delivers them (not by position); a     *)
(* document picks, for every slot, one of the slot's options: no line,    *)
(* or the backend lines shown.                                            *)
(***************************************************************************)
MaxPages == 3
MaxFiles == 3

\* every page is 800 units high
PageHeight == 10 * 800
Plain == "Helvetica"
Bold == "Helvetica-Bold"

TextA == <<"A">>
TextB == <<"B">>
TextC == <<"C">>
TextT == <<"T">>
TextR == <<" ", "R">>
TextS == <<"S", "\t">>
TextX == <<"X">>
TextNum == <<"1", ".", "1">>
TextPageNo == <<"1", "2">>
TextItem == <<"2", ".">>
TextBody == <<"x">>
TextSmall == <<"y">>
TextBlank == <<" ">>

NoLine == <<>>
Big(text, y) == <<Ln(y, <<Sp(text, 16, Plain, 50)>>)>>
Running == <<Ln(50000, <<Sp(TextT, 14, Plain, 50)>>)>>
RunningPair == <<Ln(50000, <<Sp(TextR, 14, Plain, 50), Sp(TextBlank, 14, Plain, 70),
                            Sp(TextS, 14, Plain, 90)>>)>>
TableRow == <<Ln(50000, [i \in 1..6 |-> Sp(TextT, 14, Plain, 50 + 20 * i)])>>
Numbered == <<Ln(35000, <<Sp(TextX, 12, Plain, 80), Sp(TextNum, 12, Plain, 50)>>)>>
TwoColumns == <<Ln(20002, <<Sp(TextB, 16, Plain, 50)>>), Ln(20004, <<Sp(TextC, 16, Plain, 90)>>)>>
BodyLine == <<Ln(40000, <<Sp(TextBody, 8, Plain, 50)>>)>>
SmallBold == <<Ln(60000, <<Sp(TextSmall, 10, Bold, 50)>>)>>
PageNumber == <<Ln(60000, <<Sp(TextPageNo, 16, Plain, 50)>>)>>
ListMarker == <<Ln(60000, <<Sp(TextItem, 16, Plain, 50)>>)>>
MixedBold == <<Ln(60000, <<Sp(TextSmall, 8, Bold, 50), Sp(TextA, 16, Bold, 90)>>)>>
TopMargin == <<Ln(1000, <<Sp(TextT, 14, Plain, 50)>>)>>
BottomMargin == <<Ln(78000, <<Sp(TextT, 14, Plain, 50)>>)>>

\* the slots of page pno, each the set of its options
Slots(pno) ==
    IF pno = 0
    THEN << {NoLine, Big(TextA, 30000)},
            {NoLine, Big(TextA, 10000), Numbered},
            {NoLine, Big(TextB, 20002), TwoColumns},
            {NoLine, BodyLine},
            {NoLine, Running, RunningPair, TableRow} >>
    ELSE IF pno = 1
    THEN << {NoLine, SmallBold, PageNumber, MixedBold, Big(TextC, 60000)},
            {NoLine, Running, RunningPair} >>
    ELSE IF pno = 2
    THEN << {NoLine, Running, RunningPair},
            {NoLine, TopMargin, BottomMargin, ListMarker} >>
    ELSE << {NoLine, RunningPair} >>

\* the pages a choice of options describes: each chosen line in a block of its own
PageOf(choice) ==
    [height |-> PageHeight,
     blocks |-> <<ImageBlock>> \o
                SelectSeq([i \in 1..Len(choice) |-> TextBlock(choice[i])],
                          LAMBDA b : b.lines # <<>>)]

RECURSIVE Choices(_)
Choices(slots) ==
    IF slots = <<>> THEN {<<>>}
    ELSE {<<o>> \o rest : o \in Head(slots), rest \in Choices(Tail(slots))}

PagesOf(pno) == {PageOf(c) : c \in Choices(Slots(pno))}

RECURSIVE DocsOf(_)
DocsOf(n) ==
    IF n = 0 THEN {<<>>}
    ELSE {d \o <<pg>> : d \in DocsOf(n - 1), pg \in PagesOf(n - 1)}

Docs == DocsOf(MaxPages)

NonPdf == [pdf |-> FALSE, readable |-> TRUE, doc |-> <<>>]
Unreadable == [pdf |-> TRUE, readable |-> FALSE, doc |-> <<>>]
PdfFile(d) == [pdf |-> TRUE, readable |-> TRUE, doc |-> d]
SmallFiles == {NonPdf, Unreadable, PdfFile(<<>>),
               PdfFile(<<PageOf(<<Big(TextA, 10000), BodyLine, SmallBold>>)>>)}

RECURSIVE SeqsUpTo(_, _)
SeqsUpTo(S, n) ==
    IF n = 0 THEN {<<>>}
    ELSE LET shorter == SeqsUpTo(S, n - 1)
         IN  shorter \cup {q \o <<e>> : q \in {r \in shorter : Len(r) = n - 1}, e \in S}

Batches == SeqsUpTo(SmallFiles, MaxFiles) \cup {<<PdfFile(d)>> : d \in Docs}

\* the state process_pdfs starts in; the 1b variables are not its own
Init ==
    /\ files \in Batches
    /\ fidx = 1
    /\ pc = "loop"
    /\ written = [i \in 1..Len(files) |-> <<>>]
    /\ doc = <<>>
    /\ spans = <<>> /\ centers = <<>> /\ headings = <<>> /\ kept = <<>>
    /\ title = <<>> /\ outline = <<>>
    /\ pdf = <<>> /\ items = <<>> /\ pos = 0 /\ current = <<>>
    /\ sections = <<>> /\ result = <<>> /\ spc = "idle"
    /\ docs = <<>> /\ didx = 0 /\ all_secs = <<>> /\ max_sections = 0
    /\ ranked = <<>> /\ out = <<>> /\ rpc = "idle"

\* process_pdfs: an entry that is not a PDF is passed over
SkipNonPdf ==
    /\ pc = "loop" /\ fidx <= Len(files)
    /\ ~files[fidx].pdf
    /\ fidx' = fidx + 1
    /\ UNCHANGED <<files, pc, written, doc, spans, centers, headings, kept, title, outline>>
    /\ UNCHANGED <<varsSeg, varsRank>>

\* process_pdfs: fitz.open raises on an unreadable PDF; nothing catches it
OpenFails ==
    /\ pc = "loop" /\ fidx <= Len(files)
    /\ files[fidx].pdf /\ ~files[fidx].readable
    /\ pc' = "aborted"
    /\ UNCHANGED <<files, fidx, written, doc, spans, centers, headings, kept, title, outline>>
    /\ UNCHANGED <<varsSeg, varsRank>>

\* sizes = [s['size'] for s in spans]
Sizes(sp) == [i \in 1..Len(sp) |-> sp[i].size]

\* process_pdfs: one PDF through extract_outline, its JSON written
ProcessPdf ==
    /\ pc = "loop" /\ fidx <= Len(files)
    /\ files[fidx].pdf /\ files[fidx].readable
    /\ \E sp \in {extract_spans(files[fidx].doc)} :
       \E cs \in cluster_font_sizes(Sizes(sp), MaxClusters) :
       \E r \in {extract_outline(files[fidx].doc, sp, cs)} :
          /\ doc' = <<files[fidx].doc>>
          /\ spans' = sp
          /\ centers' = cs
          /\ headings' = r.headings
          /\ kept' = r.kept
          /\ title' = r.title
          /\ outline' = r.outline
          /\ written' = [written EXCEPT ![fidx] =
                            <<[title |-> r.title, outline |-> r.outline]>>]
    /\ fidx' = fidx + 1
    /\ UNCHANGED <<files, pc>>
    /\ UNCHANGED <<varsSeg, varsRank>>

\* process_pdfs: the loop runs out of entries
Finish ==
    /\ pc = "loop" /\ fidx > Len(files)
    /\ pc' = "done"
    /\ UNCHANGED <<files, fidx, written, doc, spans, centers, headings, kept, title, outline>>
    /\ UNCHANGED <<varsSeg, varsRank>>

Next == SkipNonPdf \/ OpenFails \/ ProcessPdf \/ Finish

Spec == Init /\ [][Next]_vars

(***************************************************************************)
(* Challenge_1b/main.py: clean_text and DocumentAnalyzer.extract_sections *)
(***************************************************************************)
MinContent == 20

\* re.sub(r'\s+', ' ', text)
RECURSIVE CollapseSpace(_)
CollapseSpace(t) ==
    IF t = <<>> THEN <<>>
    ELSE IF Head(t) \in SpaceChars
    THEN <<" ">> \o CollapseSpace(lstrip(t))
    ELSE <<Head(t)>> \o CollapseSpace(Tail(t))

RECURSIVE DropOther(_)
DropOther(t) ==
    IF t # <<>> /\ Head(t) \notin KeptChars THEN DropOther(Tail(t)) ELSE t

\* re.sub(r'[^\w\s\.,!\?;:\-()]+', ' ', text)
RECURSIVE ReplaceOther(_)
ReplaceOther(t) ==
    IF t = <<>> THEN <<>>
    ELSE IF Head(t) \notin KeptChars
    THEN <<" ">> \o ReplaceOther(DropOther(t))
    ELSE <<Head(t)>> \o ReplaceOther(Tail(t))

\* clean_text
clean_text(text) == strip(ReplaceOther(CollapseSpace(text)))

\* str.isupper(): some cased character, and no lower-case one
isupper(t) ==
    /\ \E i \in 1..Len(t) : t[i] \in UpperChars
    /\ \A i \in 1..Len(t) : t[i] \notin LowerChars

is_title_upper_only(txt) == isupper(txt)

\* txt.isupper() or txt.endswith(':')
is_title(txt) == isupper(txt) \/ (txt # <<>> /\ txt[Len(txt)] = ":")

\* ' '.join(span['text'].strip() for span in line['spans'] if span['text'].strip())
LineTxt(line) ==
    join(<<" ">>, SelectSeq([i \in 1..Len(line.spans) |-> strip(line.spans[i].text)],
                            LAMBDA t : t # <<>>))

\* the spans list of extract_sections: one item per backend line with text
LineItems(d) ==
    LET OfLine(p, line) ==
            IF LineTxt(line) = <<>> THEN <<>>
            ELSE << [p |-> p, y |-> Round1(line.y), text |-> LineTxt(line)] >>
        OfBlock(p, b) ==
            IF b.type # 0 THEN <<>>
            ELSE Flatten([i \in 1..Len(b.lines) |-> OfLine(p, b.lines[i])])
        OfPage(p) ==
            LET bs == d[p + 1].blocks
            IN  Flatten([i \in 1..Len(bs) |-> OfBlock(p, bs[i])])
    IN  Flatten([q \in 1..Len(d) |-> OfPage(q - 1)])

\* sorted(spans, key=lambda x: (x['p'], x['y']))
SortedItems(its) == sorted(its, [i \in 1..Len(its) |-> <<its[i].p, its[i].y>>])

IntroductionTitle == <<"I", "n", "t", "r", "o", "d", "u", "c", "t", "i", "o", "n">>

\* the section a title line opens
NewSection(item) ==
    [title |-> clean_text(item.text), page |-> item.p + 1, content |-> <<>>]

\* the section a body line opens when none is open
Introduction(item) ==
    [title |-> IntroductionTitle, page |-> item.p + 1, content |-> clean_text(item.text)]

\* current['content'] += ' ' + clean_text(txt)
Extend(cur, item) ==
    [cur EXCEPT !.content = @ \o <<" ">> \o clean_text(item.text)]

LongEnoughInclusive(s) == Len(s.content) >= MinContent

\* len(s['content']) > 20
LongEnough(s) == Len(s.content) > MinContent

(***************************************************************************)
(* The documents extract_sections is run on: up to MaxLines backend       *)
(* lines, each one of LineChoices, placed by one of three layouts: down   *)
(* the pages, up each page, or all at one position.                       *)
(***************************************************************************)
MaxLines == 4

Low(n) == [i \in 1..n |-> "a"]
Raw(text) == Sp(text, 10, Plain, 50)
LineChoices ==
    { <<Raw(<<"A", "B">>)>>,
      <<Raw(<<"a", ":">>)>>,
      <<Raw(Low(MinContent - 1))>>,
      <<Raw(Low(MinContent))>>,
      <<Raw(<<"b">>)>>,
      <<Raw(<<" ">>), Raw(<<"a", "#", "#", " ", "\t", "b">>), Raw(<<"\t">>), Raw(<<"1", "*">>)>>,
      <<Raw(<<" ", " ">>)>> }

Layouts == {"down", "up", "same"}
PageAt(layout, i) == IF layout = "same" THEN 0 ELSE (i - 1) \div 2
YAt(layout, i) ==
    IF layout = "same" THEN 10000
    ELSE IF layout = "down" THEN 10000 + 10000 * ((i - 1) % 2)
    ELSE 20000 - 10000 * ((i - 1) % 2)

\* the document with the given lines, in this stream order, under a layout
LaidOut(layout, lns) ==
    IF lns = <<>> THEN <<>>
    ELSE [q \in 1..(PageAt(layout, Len(lns)) + 1) |->
            [height |-> PageHeight,
             blocks |-> <<ImageBlock>> \o
                Flatten([i \in 1..Len(lns) |->
                    IF PageAt(layout, i) = q - 1
                    THEN <<TextBlock(<<Ln(YAt(layout, i), lns[i])>>)>>
                    ELSE <<>>])]]

SectionDocs == {LaidOut(l, lns) : l \in Layouts, lns \in SeqsUpTo(LineChoices, MaxLines)}

\* the state extract_sections starts in; the other variables are not its own
InitSections ==
    /\ pdf \in SectionDocs
    /\ items = <<>> /\ pos = 0 /\ current = <<>>
    /\ sections = <<>> /\ result = <<>> /\ spc = "open"
    /\ files = <<>> /\ fidx = 0 /\ pc = "idle" /\ written = <<>> /\ doc = <<>>
    /\ spans = <<>> /\ centers = <<>> /\ headings = <<>> /\ kept = <<>>
    /\ title = <<>> /\ outline = <<>>
    /\ docs = <<>> /\ didx = 0 /\ all_secs = <<>> /\ max_sections = 0
    /\ ranked = <<>> /\ out = <<>> /\ rpc = "idle"

\* extract_sections: the lines are read and put in (page, position) order
SegReadLines ==
    /\ spc = "open"
    /\ items' = SortedItems(LineItems(pdf))
    /\ spc' = "walk"
    /\ UNCHANGED <<pdf, pos, current, sections, result>>
    /\ UNCHANGED <<vars1a, varsRank>>

\* extract_sections: a title line closes the open section and opens its own
SegTitleLine ==
    /\ spc = "walk" /\ pos < Len(items)
    /\ is_title(items[pos + 1].text)
    /\ sections' = sections \o current
    /\ current' = <<NewSection(items[pos + 1])>>
    /\ pos' = pos + 1
    /\ UNCHANGED <<pdf, items, result, spc>>
    /\ UNCHANGED <<vars1a, varsRank>>

\* extract_sections: a body line is added to the open section
SegBodyLine ==
    /\ spc = "walk" /\ pos < Len(items)
    /\ ~is_title(items[pos + 1].text)
    /\ current # <<>>
    /\ current' = <<Extend(current[1], items[pos + 1])>>
    /\ pos' = pos + 1
    /\ UNCHANGED <<pdf, items, sections, result, spc>>
    /\ UNCHANGED <<vars1a, varsRank>>

\* extract_sections: a body line with no section open opens "Introduction"
SegIntroduction ==
    /\ spc = "walk" /\ pos < Len(items)
    /\ ~is_title(items[pos + 1].text)
    /\ current = <<>>
    /\ current' = <<Introduction(items[pos + 1])>>
    /\ pos' = pos + 1
    /\ UNCHANGED <<pdf, items, sections, result, spc>>
    /\ UNCHANGED <<vars1a, varsRank>>

\* extract_sections: the last section is closed and the long enough ones returned
SegReturn ==
    /\ spc = "walk" /\ pos = Len(items)
    /\ sections' = sections \o current
    /\ result' = SelectSeq(sections \o current, LongEnough)
    /\ spc' = "returned"
    /\ UNCHANGED <<pdf, items, pos, current>>
    /\ UNCHANGED <<vars1a, varsRank>>

NextSections == SegReadLines \/ SegTitleLine \/ SegBodyLine \/ SegIntroduction \/ SegReturn

SpecSections == InitSections /\ [][NextSections]_vars

(***************************************************************************)
(* Challenge_1b/main.py: rank_sections, extract_subsections and           *)
(* process_collection                                                     *)
(***************************************************************************)
DefaultMaxSections == 10
DefaultMaxSubs == 5
MaxSentences == 3

ScoreKeyAscending(s) == <<s.score>>

\* key=lambda x: -x['score']
ScoreKey(s) == <<-s.score>>

\* rank_sections, given the similarities sims the vectorizer and
\* cosine_similarity produce: the sections with their scores (and the ranks
\* set on the shared records), and the ranked list returned
rank_sections(secs, sims, k) ==
    LET scored == [i \in 1..Len(secs) |->
                      [title |-> secs[i].title, page |-> secs[i].page,
                       content |-> secs[i].content, document |-> secs[i].document,
                       score |-> sims[i]]]
        perm == SortIdx(Len(secs), [i \in 1..Len(secs) |-> ScoreKey(scored[i])])
        top == SubSeq(perm, 1, Min2(k, Len(secs)))
        Ranked(i, idx) ==
            [title |-> scored[i].title, page |-> scored[i].page,
             content |-> scored[i].content, document |-> scored[i].document,
             score |-> scored[i].score, importance_rank |-> idx]
    IN  [sections |-> [i \in 1..Len(secs) |->
                          IF \E j \in 1..Len(top) : top[j] = i
                          THEN Ranked(i, CHOOSE j \in 1..Len(top) : top[j] = i)
                          ELSE scored[i]],
         ranked   |-> [j \in 1..Len(top) |-> Ranked(top[j], j)]]

SentenceEnds == {".", "!", "?"}

RECURSIVE DropBlanks(_)
DropBlanks(t) == IF t # <<>> /\ Head(t) = " " THEN DropBlanks(Tail(t)) ELSE t

\* re.split(r'(?<=[.!?]) +', content)
RECURSIVE split_sentences(_, _)
split_sentences(t, acc) ==
    IF t = <<>> THEN <<acc>>
    ELSE IF Head(t) \in SentenceEnds /\ Len(t) >= 2 /\ t[2] = " "
    THEN <<acc \o <<Head(t)>>>> \o split_sentences(DropBlanks(Tail(t)), <<>>)
    ELSE split_sentences(Tail(t), acc \o <<Head(t)>>)

\* extract_subsections
extract_subsections(rk, max_subs) ==
    [j \in 1..Min2(max_subs, Len(rk)) |->
        LET sents == split_sentences(rk[j].content, <<>>)
            sel == SubSeq(sents, 1, Min2(MaxSentences, Len(sents)))
        IN  [document |-> rk[j].document,
             refined_text |-> join(<<" ">>, sel),
             page_number |-> rk[j].page]]

(***************************************************************************)
(* The collections process_collection is run on: up to MaxDocs documents, *)
(* each with the sections extract_sections found in it (their bodies      *)
(* longer than MinContent), an analyzer keeping max_sections sections,    *)
(* and similarities in 0..MaxScore.                                       *)
(***************************************************************************)
MaxDocs == 2
MaxScore == 2
MaxKeep == 3

SecCounts == {0, 1, 2}
Sentence(n, e) == Low(n) \o <<e>>
Prose == Sentence(5, ".") \o <<" ">> \o Sentence(5, "!") \o <<" ", " ">>
         \o Sentence(5, "?") \o <<" ">> \o Sentence(5, ".") \o <<" ">> \o Low(2)
Found(k) ==
    [title |-> <<"A">>, page |-> k,
     content |-> IF k % 2 = 1 THEN Prose ELSE <<" ">> \o Low(MinContent)]
DocsWith(counts) ==
    [i \in 1..Len(counts) |-> [filename |-> i, secs |-> [k \in 1..counts[i] |-> Found(k)]]]
Collections == {DocsWith(c) : c \in SeqsUpTo(SecCounts, MaxDocs)}

\* the state process_collection starts in; the other variables are not its own
InitRanking ==
    /\ docs \in Collections
    /\ max_sections \in (1..MaxKeep) \cup {DefaultMaxSections}
    /\ didx = 1 /\ all_secs = <<>>
    /\ ranked = <<>> /\ out = <<>> /\ rpc = "pool"
    /\ pdf = <<>> /\ items = <<>> /\ pos = 0 /\ current = <<>>
    /\ sections = <<>> /\ result = <<>> /\ spc = "idle"
    /\ files = <<>> /\ fidx = 0 /\ pc = "idle" /\ written = <<>> /\ doc = <<>>
    /\ spans = <<>> /\ centers = <<>> /\ headings = <<>> /\ kept = <<>>
    /\ title = <<>> /\ outline = <<>>

\* process_collection: one document's sections are tagged and pooled
PoolDocument ==
    /\ rpc = "pool" /\ didx <= Len(docs)
    /\ all_secs' = all_secs \o
          [k \in 1..Len(docs[didx].secs) |->
              [title |-> docs[didx].secs[k].title, page |-> docs[didx].secs[k].page,
               content |-> docs[didx].secs[k].content,
               document |-> docs[didx].filename]]
    /\ didx' = didx + 1
    /\ UNCHANGED <<docs, max_sections, ranked, out, rpc>>
    /\ UNCHANGED <<vars1a, varsSeg>>

\* process_collection: the pooled sections are scored and ranked
RankSections ==
    /\ rpc = "pool" /\ didx > Len(docs)
    /\ all_secs # <<>>
    /\ \E sims \in [1..Len(all_secs) -> 0..MaxScore] :
       \E r \in {rank_sections(all_secs, sims, max_sections)} :
          /\ all_secs' = r.sections
          /\ ranked' = r.ranked
    /\ rpc' = "ranked"
    /\ UNCHANGED <<docs, didx, max_sections, out>>
    /\ UNCHANGED <<vars1a, varsSeg>>

\* process_collection: the vectorizer or cosine_similarity raises (no section
\* pooled, or no term left in the vocabulary); main logs it and goes on
RankFails ==
    /\ rpc = "pool" /\ didx > Len(docs)
    /\ rpc' = "failed"
    /\ UNCHANGED <<docs, didx, all_secs, max_sections, ranked, out>>
    /\ UNCHANGED <<vars1a, varsSeg>>

\* process_collection: the excerpts are taken and the output written
WriteOutput ==
    /\ rpc = "ranked"
    /\ out' = << [extracted_sections |->
                  [j \in 1..Len(ranked) |->
                      [document |-> ranked[j].document,
                       section_title |-> ranked[j].title,
                       importance_rank |-> ranked[j].importance_rank,
                       page_number |-> ranked[j].page]],
                 subsection_analysis |-> extract_subsections(ranked, DefaultMaxSubs)] >>
    /\ rpc' = "written"
    /\ UNCHANGED <<docs, didx, all_secs, max_sections, ranked>>
    /\ UNCHANGED <<vars1a, varsSeg>>

NextRanking == PoolDocument \/ RankSections \/ RankFails \/ WriteOutput

SpecRanking == InitRanking /\ [][NextRanking]_vars

(***************************************************************************)
(* Claims about process_pdfs.py, checked under Spec                        *)
(***************************************************************************)
Opened == doc # <<>>

\* the aggregated line a heading was made from, and the depth its font gives it
LineOf(h) == Group(spans, <<h.page - 1, h.y>>)
BaseDepth(h) == Len(centers) - LineCluster(LineOf(h), centers)
NumberedBelowTop(h) == is_numbered(LineText(LineOf(h))) /\ BaseDepth(h) # 1

\* C1 as stated: a numbered line whose base depth is not H1 is emitted one
\* level deeper than its base depth (H2 as H3, H3 as H4), never shallower.
C1_NumberedOneDeeper ==
    Opened => \A i \in 1..Len(headings) :
        /\ NumberedBelowTop(headings[i])
              => headings[i].level = FormatLevel(BaseDepth(headings[i]) + 1)
        /\ is_numbered(LineText(LineOf(headings[i])))
              => LevelDigit(headings[i].level) >= BaseDepth(headings[i])

\* C1 amended: a numbered line whose base depth is not H1 is emitted one
\* level shallower than its base depth (H2 as H1); a numbered line at base
\* depth H1 stays H1; a numbered line is never emitted deeper than its base.
C1_NumberedOneShallower ==
    Opened => \A i \in 1..Len(headings) :
        /\ NumberedBelowTop(headings[i])
              => headings[i].level = FormatLevel(BaseDepth(headings[i]) - 1)
        /\ is_numbered(LineText(LineOf(headings[i])))
              => LevelDigit(headings[i].level) <= BaseDepth(headings[i])
        /\ is_numbered(LineText(LineOf(headings[i]))) /\ BaseDepth(headings[i]) = 1
              => headings[i].level = H1

C1_Witness ==
    /\ Opened
    /\ \E i \in 1..Len(headings) :
          NumberedBelowTop(headings[i]) /\ BaseDepth(headings[i]) = 2
    /\ \E i \in 1..Len(outline) : outline[i].text = TextNum \o <<" ">> \o TextX \o <<" ">>

\* the pages on which some aggregated line reads exactly text
LinePages(text) ==
    LET keys == LineKeys(spans, {})
    IN  {keys[i][1] : i \in {j \in 1..Len(keys) : LineText(Group(spans, keys[j])) = text}}

\* C2: an aggregated line whose joined text is a line on 3 or more distinct
\* pages is in no heading, so in neither the title nor the outline, whatever
\* the number of its fragments and its font level.
C2_RepeatedLineExcluded ==
    Opened => \A i \in 1..Len(headings) :
        \E t \in {LineText(LineOf(headings[i]))} :
            Cardinality(LinePages(t)) <= MaxRepeatPages

\* the title headings the claim names: the first two page-1 H1 headings by position
IsTitleHeading(h) ==
    /\ h.page = 1 /\ h.level = H1
    /\ Cardinality({j \in 1..Len(headings) :
           headings[j].page = 1 /\ headings[j].level = H1 /\ headings[j].y < h.y})
         < TitleParts

\* C3: the title is made of at most 2 page-1 H1 headings in ascending
\* position, and the outline is the headings less exactly those: every other
\* heading, a third page-1 H1 heading included, is still in the outline.
C3_OnlyTitleRemoved ==
    Opened =>
        /\ title = strip(Flatten([i \in 1..Len(headings) |->
                     IF IsTitleHeading(headings[i]) THEN headings[i].text ELSE <<>>]))
        /\ kept = SelectSeq(headings, LAMBDA h : ~IsTitleHeading(h))
        /\ Len(outline) = Len(kept)

\* C4: a PDF that cannot be opened does not abort the batch: the run reaches
\* its end, and every readable PDF after a failing one has its JSON written.
C4_BatchSurvivesFailure ==
    pc \in {"done", "aborted"} =>
        /\ pc = "done"
        /\ \A i \in 1..Len(files) :
              (files[i].pdf /\ files[i].readable
                 /\ \E j \in 1..(i - 1) : files[j].pdf /\ ~files[j].readable)
              => written[i] # <<>>

\* C7: the outline is in (page, position) order: of two consecutive entries
\* the earlier one is on a smaller page or, on the same page, strictly higher
\* up; cutting the title entries keeps the order of the rest.
C7_OutlineInReadingOrder ==
    /\ Len(outline) = Len(kept)
    /\ \A i \in 1..Len(kept) :
          /\ outline[i] = [level |-> kept[i].level, text |-> kept[i].text,
                           page |-> kept[i].page]
          /\ \E j \in 1..Len(spans) :
                spans[j].pno + 1 = kept[i].page /\ spans[j].y0 = kept[i].y
    /\ \A i \in 1..(Len(kept) - 1) :
          \/ kept[i].page < kept[i + 1].page
          \/ kept[i].page = kept[i + 1].page /\ kept[i].y < kept[i + 1].y

C7_Witness ==
    /\ title # <<>>
    /\ Len(outline) >= 3
    /\ \E i \in 1..(Len(kept) - 1) : kept[i].page = kept[i + 1].page
    /\ \E i \in 1..(Len(kept) - 1) : kept[i].page < kept[i + 1].page
    /\ \E i, j \in 1..Len(spans) :
          i < j /\ spans[i].pno = spans[j].pno /\ spans[i].y0 > spans[j].y0
          /\ (\E a \in 1..Len(kept) : kept[a].y = spans[i].y0 /\ kept[a].page = spans[i].pno + 1)
          /\ (\E b \in 1..Len(kept) : kept[b].y = spans[j].y0 /\ kept[b].page = spans[j].pno + 1)

\* C9: every outline entry is labelled H1 or H2, whatever the number of
\* font levels.
C9_LevelsH1H2 ==
    \A i \in 1..Len(outline) : outline[i].level \in {FormatLevel(1), FormatLevel(2)}

C9_Witness ==
    /\ Len(centers) = MaxClusters
    /\ \E i \in 1..Len(outline) : outline[i].level = FormatLevel(2)
    /\ \E i \in 1..Len(outline) : outline[i].level = H1 /\ is_numbered(outline[i].text)

\* the line of key k holds a fragment at font level 0
HasSmallest(k) ==
    \E j \in 1..Len(spans) :
        spans[j].pno = k[1] /\ spans[j].y0 = k[2] /\ map_cluster(spans[j].size, centers) = 0

\* C10: with fewer than 3 distinct font sizes the title and the outline are
\* empty; and a line with a fragment at font level 0 is never a heading, all
\* its fonts being bold or italic or not.
C10_SmallestNeverHeading ==
    Opened =>
        /\ Cardinality({spans[j].size : j \in 1..Len(spans)}) < 3
              => title = <<>> /\ outline = <<>> /\ headings = <<>>
        /\ \A i \in 1..Len(headings) :
              ~HasSmallest(<<headings[i].page - 1, headings[i].y>>)

C10_Witness ==
    /\ Opened
    /\ Len(centers) >= 3
    /\ outline # <<>>
    /\ \E j \in 1..Len(spans) :
          /\ HasSmallest(<<spans[j].pno, spans[j].y0>>)
          /\ map_cluster(spans[j].size, centers) >= 2
          /\ \A i \in 1..Len(spans) :
                spans[i].pno = spans[j].pno /\ spans[i].y0 = spans[j].y0
                => is_styled(spans[i].font)

\* the first half of C10 has its case: two font sizes, some fragment at level 1
C10_WitnessFewSizes ==
    /\ Opened
    /\ Cardinality({spans[j].size : j \in 1..Len(spans)}) = 2
    /\ \E j \in 1..Len(spans) : map_cluster(spans[j].size, centers) = 1

(***************************************************************************)
(* Claims about extract_sections, checked under SpecSections              *)
(***************************************************************************)
Returned == spc = "returned"

InResult(s) == \E j \in 1..Len(result) : result[j] = s

\* C5 as stated: a section is dropped exactly when its body is shorter than
\* 20 characters; every section of 20 or more characters is returned.
C5_DroppedBelowTwenty ==
    Returned => result = SelectSeq(sections, LAMBDA s : ~(Len(s.content) < MinContent))

\* C5 amended: a section is dropped exactly when its body has at most 20
\* characters; every section of 21 or more characters is returned, in order,
\* the implicit "Introduction" section like any other.
C5_DroppedUpToTwenty ==
    Returned => result = SelectSeq(sections, LAMBDA s : Len(s.content) >= MinContent + 1)

C5_Witness ==
    /\ Returned
    /\ \E k \in 1..Len(sections) :
          /\ sections[k].title = IntroductionTitle
          /\ Len(sections[k].content) = MinContent
          /\ ~InResult(sections[k])
    /\ \E k \in 1..Len(sections) :
          /\ sections[k].title # IntroductionTitle
          /\ Len(sections[k].content) = MinContent + 1
          /\ InResult(sections[k])

\* a title line as the claim defines it: all upper-case, or ending with a colon
TitleLine(item) ==
    \/ /\ \E i \in 1..Len(item.text) : item.text[i] \in UpperChars
       /\ ~\E i \in 1..Len(item.text) : item.text[i] \in LowerChars
    \/ item.text[Len(item.text)] = ":"

\* the lines that open a section among the first n: the title lines, and the
\* first line when it is not one
Openers(n) == {i \in 1..n : i = 1 \/ TitleLine(items[i])}

\* the body lines between opener o and the next opener, n being the last line
RECURSIVE BodyAfter(_, _)
BodyAfter(o, n) ==
    IF o + 1 > n \/ TitleLine(items[o + 1]) THEN <<>>
    ELSE <<" ">> \o clean_text(items[o + 1].text) \o BodyAfter(o + 1, n)

\* the section the claim expects opener o to have produced after n lines
ExpectedSection(o, n) ==
    IF TitleLine(items[o])
    THEN [title |-> clean_text(items[o].text), page |-> items[o].p + 1,
          content |-> BodyAfter(o, n)]
    ELSE [title |-> IntroductionTitle, page |-> items[o].p + 1,
          content |-> clean_text(items[o].text) \o BodyAfter(o, n)]

\* C8: at every point of the walk the closed sections followed by the open
\* one are the sections of a two-state segmenter run on the lines seen so
\* far: one per title line, plus "Introduction" when the first line is a
\* body line, each holding exactly the body lines up to the next title
\* line; a section is open from the first line on; the lines are walked in
\* (page, position) order.
C8_TwoStateSegmenter ==
    spc \in {"walk", "returned"} =>
        \E all \in {IF Returned THEN sections ELSE sections \o current} :
            /\ Len(all) = Cardinality(Openers(pos))
            /\ \A k \in 1..Len(all) :
                  \E o \in Openers(pos) :
                      /\ Cardinality({q \in Openers(pos) : q <= o}) = k
                      /\ all[k] = ExpectedSection(o, pos)
            /\ (current = <<>>) <=> (pos = 0)
            /\ \A i \in 1..(Len(items) - 1) :
                  \/ items[i].p < items[i + 1].p
                  \/ items[i].p = items[i + 1].p /\ items[i].y <= items[i + 1].y

C8_Witness ==
    /\ Returned
    /\ Len(sections) >= 2
    /\ sections[1].title = IntroductionTitle
    /\ sections[2].title = <<"a", ":">>
    /\ Len(sections[2].content) > MinContent
    /\ Len(items) = 4
    /\ \E i \in 1..Len(pdf[1].blocks) : \E j \in 1..Len(pdf[1].blocks) :
          /\ i < j
          /\ pdf[1].blocks[i].type = 0 /\ pdf[1].blocks[j].type = 0
          /\ pdf[1].blocks[i].lines[1].y > pdf[1].blocks[j].lines[1].y

(***************************************************************************)
(* Claims about rank_sections, checked under SpecRanking                  *)
(***************************************************************************)
\* the place in the pool of a ranked section (document and page name it)
PoolIndex(r) ==
    CHOOSE i \in 1..Len(all_secs) :
        all_secs[i].document = r.document /\ all_secs[i].page = r.page

\* C6: rank_sections returns the min(K, n) highest-scoring of the n pooled
\* sections, by non-increasing score, equal scores in pooled order (documents
\* in input order, each document's sections in discovery order), with
\* importance_rank 1, 2, ..., min(K, n).
C6_StableTopK ==
    rpc \in {"ranked", "written"} =>
        /\ Len(ranked) = Min2(max_sections, Len(all_secs))
        /\ \A j \in 1..Len(ranked) :
              /\ ranked[j].importance_rank = j
              /\ ranked[j].score = all_secs[PoolIndex(ranked[j])].score
        /\ \A j \in 1..(Len(ranked) - 1) :
              \/ ranked[j].score > ranked[j + 1].score
              \/ /\ ranked[j].score = ranked[j + 1].score
                 /\ PoolIndex(ranked[j]) < PoolIndex(ranked[j + 1])
        /\ \A i \in 1..Len(all_secs) :
              (\A j \in 1..Len(ranked) : PoolIndex(ranked[j]) # i)
              => \A j \in 1..Len(ranked) :
                    \/ all_secs[i].score < ranked[j].score
                    \/ all_secs[i].score = ranked[j].score /\ PoolIndex(ranked[j]) < i
        /\ \A i \in 1..(Len(all_secs) - 1) :
              \/ all_secs[i].document < all_secs[i + 1].document
              \/ /\ all_secs[i].document = all_secs[i + 1].document
                 /\ all_secs[i].page < all_secs[i + 1].page
        /\ rpc = "written" =>
              \A j \in 1..Len(out[1].extracted_sections) :
                  out[1].extracted_sections[j].importance_rank = j

C6_Witness ==
    /\ rpc = "ranked"
    /\ Len(all_secs) > max_sections
    /\ Len(ranked) >= 2
    /\ \E j \in 1..(Len(ranked) - 1) :
          /\ ranked[j].score = ranked[j + 1].score
          /\ ranked[j].document # ranked[j + 1].document
    /\ \E i \in 1..Len(all_secs) :
          /\ \A j \in 1..Len(ranked) : PoolIndex(ranked[j]) # i
          /\ all_secs[i].score = ranked[Len(ranked)].score
    /\ \E i \in 1..(Len(all_secs) - 1) : all_secs[i].score < all_secs[i + 1].score

====
